---- MODULE Spec2Model ----
(***************************************************************************)
(* Model of the nextjs_build_command resource of the NextJS Terraform      *)
(* provider (internal/provider/nextjs_build_command.go) and of the         *)
(* provider's own Configure.                                               *)
(*                                                                         *)
(* Strings that the code takes apart (command strings, tokens) are         *)
(* sequences of one-character strings; strings the code only compares or   *)
(* passes on (paths, executable names, diagnostic summaries) are TLA+      *)
(* strings.  A framework value (types.String, types.List) is a record      *)
(* with its state (null / unknown / known) and its value.                  *)
(***************************************************************************)
EXTENDS Integers, Sequences, FiniteSets, TLC

VARIABLES
    phase,          \* host protocol: "init", "provider" (provider configured), "ready"
    resourceData,   \* resp.ResourceData handed over by the provider's Configure
    executable,     \* BuildCommand.executable
    stored,         \* the host's state store for this resource (NoState when absent)
    disk,           \* the file system: source directory, state file, command effects
    pc,             \* position of the running Create handler ("idle" when none runs)
    data,           \* the handler's local BuildCommandModel
    index,          \* loop index of Create's command loop
    diags,          \* resp.Diagnostics of the current / most recent handler
    procs,          \* external processes started by the current / most recent handler
    op,             \* the current / most recent handler
    exit,           \* the statement at which the most recent handler returned
    prior,          \* the state store as it was when the handler was invoked
    reads,          \* files read (os.ReadFile) by the current / most recent handler
    providerModel,  \* NextJSProviderModel.Executable as the provider's Configure read it
    detected,       \* the executables whose version detection succeeded
    input,          \* a command string handed to safeSplit
    tokens,         \* safeSplit's result for input
    retokens,       \* safeSplit's result for the tokens joined by single spaces
    splitPc         \* "input", "split" (tokens set), "rejoined" (retokens set)

hostVars == <<providerModel, detected>>
splitVars == <<input, tokens, retokens, splitPc>>

vars == <<phase, resourceData, executable, stored, disk, pc, data, index,
          diags, procs, op, exit, prior, reads, providerModel, detected,
          input, tokens, retokens, splitPc>>

----------------------------------------------------------------------------
(* Bounds *)

\* Longest command string handed to the tokenizer on its own
MaxLen == 7

MaxCmds == 2

----------------------------------------------------------------------------
(* Strings as character sequences *)

SP == " "
SQ == "'"
DQ == "\""

HasPrefix(s, c) == Len(s) > 0 /\ s[1] = c
HasSuffix(s, c) == Len(s) > 0 /\ s[Len(s)] = c
TrimPrefix(s, c) == IF HasPrefix(s, c) THEN SubSeq(s, 2, Len(s)) ELSE s
TrimSuffix(s, c) == IF HasSuffix(s, c) THEN SubSeq(s, 1, Len(s) - 1) ELSE s

\* strings.Split(s, " "): the words between single spaces, empty words included
RECURSIVE SplitFrom(_, _, _)
SplitFrom(s, i, word) ==
    IF i > Len(s) THEN <<word>>
    ELSE IF s[i] = SP THEN <<word>> \o SplitFrom(s, i + 1, <<>>)
    ELSE SplitFrom(s, i + 1, Append(word, s[i]))

\* Variant of Split: strings.Fields, which drops the empty words
SplitDroppingEmpty(s) == SelectSeq(SplitFrom(s, 1, <<>>), LAMBDA w : w # <<>>)

Split(s) == SplitFrom(s, 1, <<>>)

\* One iteration of safeSplit's loop over the words.
\* st = [result, inquote, block]; inquote = "" outside quote mode.
SplitStep(st, w) ==
    IF st.inquote = ""
    THEN IF HasPrefix(w, SQ) \/ HasPrefix(w, DQ)
         THEN [result |-> st.result,
               inquote |-> w[1],
               block |-> Append(TrimPrefix(w, w[1]), SP)]
         ELSE [st EXCEPT !.result = Append(st.result, w)]
    ELSE IF ~HasSuffix(w, st.inquote)
         THEN [st EXCEPT !.block = Append(st.block \o w, SP)]
         ELSE [result |-> Append(st.result, st.block \o TrimSuffix(w, st.inquote)),
               inquote |-> "",
               block |-> <<>>]

RECURSIVE SplitLoop(_, _, _)
SplitLoop(words, i, st) ==
    IF i > Len(words) THEN st
    ELSE SplitLoop(words, i + 1, SplitStep(st, words[i]))

\* Variant of safeSplit: a buffer left open at the end of the input is emitted
safeSplitFlushing(s) ==
    LET st == SplitLoop(Split(s), 1, [result |-> <<>>, inquote |-> "", block |-> <<>>])
    IN  IF st.inquote = "" THEN st.result ELSE Append(st.result, st.block)

safeSplit(s) ==
    SplitLoop(Split(s), 1, [result |-> <<>>, inquote |-> "", block |-> <<>>]).result

----------------------------------------------------------------------------
(* Framework values *)

NullString == [state |-> "null", value |-> ""]
UnknownString == [state |-> "unknown", value |-> ""]
StringValue(v) == [state |-> "known", value |-> v]

IsNull(x) == x.state = "null"
\* Variant of IsUnknown: the unknown check is missing
IsUnknownNever(x) == FALSE

IsUnknown(x) == x.state = "unknown"
\* types.String.ValueString: "" for a null or unknown value
ValueString(x) == IF x.state = "known" THEN x.value ELSE ""

UnknownList == [state |-> "unknown", elems |-> <<>>]
ListValue(es) == [state |-> "known", elems |-> es]

\* types.List.ElementsAs(ctx, &elements, false) into a []types.String:
\* an unknown list cannot be held by a slice and yields an error diagnostic.
ElementsAs(list) ==
    IF list.state = "unknown"
    THEN [err |-> TRUE, elements |-> <<>>]
    ELSE [err |-> FALSE, elements |-> list.elems]

\* The resource data model and the stored object (schema attribute names).
\* req.Plan.Get / req.State.Get fill the model from the object,
\* resp.State.Set writes the model's fields back under their tfsdk names.
BuildCommandModel(obj) ==
    [SourcePath |-> obj.source_path, Commands |-> obj.commands, Data |-> obj.data]

StateSet(m) ==
    <<[source_path |-> m.SourcePath, commands |-> m.Commands, data |-> m.Data]>>

NoState == <<>>
NoData == [SourcePath |-> NullString, Commands |-> UnknownList, Data |-> UnknownList]

----------------------------------------------------------------------------
(* Inputs *)

\* "build" and "run 'a b'" as character sequences
CommandStrings == { <<"b">>, <<"r", SP, SQ, "a", SP, "b", SQ>> }

RECURSIVE SeqsUpTo(_, _)
SeqsUpTo(S, n) ==
    IF n = 0 THEN { <<>> }
    ELSE LET shorter == SeqsUpTo(S, n - 1)
         IN  shorter \cup { Append(q, x) : q \in { r \in shorter : Len(r) = n - 1 }, x \in S }

CommandLists == { ListValue(es) : es \in SeqsUpTo(CommandStrings, MaxCmds) } \cup { UnknownList }

\* "app" is the one directory the file system may hold (or lack).
SourcePaths == { NullString, UnknownString, StringValue(""), StringValue("app") }

\* The planned object: data is Computed and carries no plan modifier, so the
\* host plans it as unknown.
Plans == { [source_path |-> sp, commands |-> cl, data |-> UnknownList] :
             sp \in SourcePaths, cl \in CommandLists }

\* req.Plan.Get(ctx, &data): the model filled from the plan, or error
\* diagnostics (the model is then left as it was declared).
PlanGets ==
    { [err |-> TRUE, model |-> NoData] }
    \cup { [err |-> FALSE, model |-> BuildCommandModel(p)] : p \in Plans }

\* The provider's optional executable attribute: unset, set, set to ""
ConfiguredExecutables == { NullString, StringValue("yarn"), StringValue("") }

----------------------------------------------------------------------------
(* File system and processes *)

Artifact(p, h, f) == [path |-> p, sha256 |-> h, function_name |-> f]

Doc1 == << Artifact("a.zip", "abc", "f1") >>
Doc2 == << Artifact("b.zip", "def", "f2"), Artifact("a.zip", "abc", "f1") >>

\* The state file: absent, not accessible (stat fails), present but not
\* readable, present with bytes that are no JSON, present with a JSON
\* document listing artifacts.
FileStates ==
    { [kind |-> k, doc |-> <<>>] : k \in {"absent", "staterr", "unreadable", "garbage"} }
    \cup { [kind |-> "json", doc |-> d] : d \in {Doc1, Doc2} }

StateFilePath == <<"app", ".serverless", "serverless-state.json">>

\* path.Join: empty elements are ignored
Join(elems) == SelectSeq(elems, LAMBDA e : e # "")

\* os.Stat on a path of the modelled file system
Stat(path) ==
    IF path = <<"app">> THEN disk.dir
    ELSE IF path = StateFilePath
    THEN IF disk.dir # "ok" THEN disk.dir
         ELSE CASE disk.stateFile.kind = "absent" -> "notexist"
                [] disk.stateFile.kind = "staterr" -> "error"
                [] OTHER -> "ok"
    ELSE "notexist"

exists(path) ==
    LET st == Stat(path)
    IN  IF st = "ok" THEN [exist |-> TRUE, err |-> FALSE]
        ELSE IF st = "notexist" THEN [exist |-> FALSE, err |-> FALSE]
        ELSE [exist |-> FALSE, err |-> TRUE]

\* os.ReadFile on the state file: the bytes, or an error (bytes are then nil)
ReadFile(path) ==
    IF path = StateFilePath /\ Stat(path) = "ok" /\ disk.stateFile.kind # "unreadable"
    THEN [err |-> FALSE, bytes |-> disk.stateFile]
    ELSE [err |-> TRUE, bytes |-> [kind |-> "nil", doc |-> <<>>]]

\* Variant of Unmarshal: the parse error is dropped
UnmarshalIgnoringError(bytes) ==
    [err |-> "", value |-> IF bytes.kind = "json" THEN bytes.doc ELSE <<>>]

\* json.Unmarshal into an interface{}: nil bytes and bytes that are no JSON fail
Unmarshal(bytes) ==
    CASE bytes.kind = "json" -> [err |-> "", value |-> bytes.doc]
      [] bytes.kind = "nil" -> [err |-> "unexpected end of JSON input", value |-> <<>>]
      [] OTHER -> [err |-> "invalid character", value |-> <<>>]

\* What an external process can do: exit 0, exit non-zero, or fail to start;
\* whatever its exit, it may leave the state file alone or replace it.
ExitStatuses == {"ok", "nonzero", "nostart"}
FileEffects == { [kind |-> "keep", doc |-> <<>>] } \cup FileStates

Diag(summary, exe, args, file, cause) ==
    [severity |-> "error", summary |-> summary, exe |-> exe, args |-> args,
     file |-> file, cause |-> cause]

HasError(ds) == \E i \in 1..Len(ds) : ds[i].severity = "error"

----------------------------------------------------------------------------
(* Initial state *)

Disks ==
    { [dir |-> "ok", stateFile |-> f, effects |-> {}] : f \in FileStates }
    \cup { [dir |-> d, stateFile |-> [kind |-> "absent", doc |-> <<>>], effects |-> {}] :
             d \in {"notexist", "error"} }

\* The resource and its environment before any handler has run
ResourceInit ==
    /\ phase = "init"
    /\ resourceData = <<>>
    /\ executable = ""
    /\ stored = NoState
    /\ disk \in Disks
    /\ pc = "idle"
    /\ data = NoData
    /\ index = 0
    /\ diags = <<>>
    /\ procs = <<>>
    /\ op = "none"
    /\ exit = "none"
    /\ prior = NoState
    /\ reads = <<>>
    /\ providerModel = NullString
    /\ detected = {}

Init ==
    /\ ResourceInit
    /\ input = <<>>
    /\ tokens = <<>>
    /\ retokens = <<>>
    /\ splitPc = "input"

\* A handler is invoked: its response starts empty.
Invoke(name) ==
    /\ pc = "idle"
    /\ op' = name
    /\ prior' = stored
    /\ index' = 0

\* A handler returns at statement `at` with diagnostics ds.
Return(at, ds) ==
    /\ pc' = "idle"
    /\ exit' = at
    /\ diags' = ds

GetDiag == Diag("Value Conversion Error", "", <<>>, <<>>, "get")

----------------------------------------------------------------------------
(* Provider configuration *)

\* exec.Command(executable, args...).Output(): an empty name cannot be started
StartOutcomes(exe) == IF exe = "" THEN {"nostart"} ELSE ExitStatuses

\* Variant of CommandErr: only a failure to start counts, the exit status is ignored
CommandErrIgnoringExit(status) == status = "nostart"

CommandErr(status) == status # "ok"

Proc(exe, args, dir, i, command, status) ==
    [exe |-> exe, args |-> args, dir |-> dir, index |-> i, command |-> command,
     status |-> status]

\* detectExecutableVersion: runs `<executable> -v`
VersionArgs == << <<"-", "v">> >>

\* The name the provider hands to Configure's version detection
DetectName(cfg) == IF IsNull(cfg) THEN "npm" ELSE ValueString(cfg)

\* Variant of ResolvedExecutable: the default is detected but not handed over
ResolvedExecutableAsConfigured(cfg) == ValueString(cfg)

\* The name the provider hands over to the resources
ResolvedExecutable(cfg) == IF IsNull(cfg) THEN "npm" ELSE ValueString(cfg)

ProviderConfigure ==
    \E cfg \in ConfiguredExecutables, getErr \in BOOLEAN :
        /\ phase = "init"
        /\ Invoke("ProviderConfigure")
        /\ reads' = <<>>
        /\ UNCHANGED splitVars
        /\ UNCHANGED <<executable, stored, disk, data>>
        /\ IF getErr
           THEN /\ Return("ConfigGet", <<GetDiag>>)
                /\ procs' = <<>>
                /\ UNCHANGED <<phase, resourceData, providerModel, detected>>
           ELSE \E status \in StartOutcomes(DetectName(cfg)) :
                /\ providerModel' = cfg
                /\ procs' = <<Proc(DetectName(cfg), VersionArgs, "", 0, <<>>, status)>>
                /\ IF CommandErr(status)
                   THEN /\ Return("DetectFailed",
                                  <<Diag("Error detecting executable", DetectName(cfg),
                                         VersionArgs, <<>>, status)>>)
                        /\ UNCHANGED <<phase, resourceData, detected>>
                   ELSE /\ Return("Configured", <<>>)
                        /\ detected' = detected \cup {DetectName(cfg)}
                        /\ resourceData' = <<ResolvedExecutable(cfg)>>
                        /\ phase' = "provider"

\* BuildCommand.Configure: req.ProviderData is what the provider handed over
\* (nil before the provider is configured); it is always a string.
Configure ==
    /\ Invoke("Configure")
    /\ procs' = <<>>
    /\ reads' = <<>>
    /\ UNCHANGED splitVars
    /\ UNCHANGED hostVars
    /\ UNCHANGED <<resourceData, stored, disk, data>>
    /\ IF resourceData = <<>>
       THEN /\ Return("NoProviderData", <<>>)
            /\ UNCHANGED <<phase, executable>>
       ELSE /\ Return("Configured", <<>>)
            /\ executable' = resourceData[1]
            /\ phase' = "ready"

----------------------------------------------------------------------------
(* Create *)

PathInvalidDiag == Diag("Source Path is not Valid", "", <<>>, <<>>, "")

\* Variant of PathOk: `!exist && err == nil` fails, so a stat error passes
PathOkOnStatError(e) == e.exist \/ e.err

\* Whether an existence check lets Create go on (`!exist || err != nil` fails)
PathOk(e) == e.exist /\ ~e.err

\* Variant of LoopHead: the loop is left after its first iteration
LoopHeadLeavingEarly(i, n) == IF i = 0 /\ i < n THEN "RunningCommand" ELSE "LocatingStateFile"

\* The range loop's head: the next command, or the code after the loop
LoopHead(i, n) == IF i < n THEN "RunningCommand" ELSE "LocatingStateFile"

\* Lines 153-180: read the plan, check the source path, decode the commands.
CreateBegin ==
    \E get \in PlanGets :
        /\ phase = "ready"
        /\ stored = NoState
        /\ Invoke("Create")
        /\ procs' = <<>>
        /\ reads' = <<>>
        /\ data' = get.model
        /\ UNCHANGED splitVars
        /\ UNCHANGED hostVars
        /\ UNCHANGED <<phase, resourceData, executable, stored, disk>>
        /\ IF get.err
           THEN Return("PlanGet", <<GetDiag>>)
           ELSE IF IsNull(get.model.SourcePath) \/ IsUnknown(get.model.SourcePath)
           THEN Return("SourcePathNeeded",
                       <<Diag("Source Path needed", "", <<>>, <<>>, "")>>)
           ELSE IF ~PathOk(exists(<<ValueString(get.model.SourcePath)>>))
           THEN Return("SourcePathInvalid", <<PathInvalidDiag>>)
           ELSE IF ElementsAs(get.model.Commands).err
           THEN Return("CommandsDecode", <<>>)
           ELSE /\ pc' = LoopHead(0, Len(ElementsAs(get.model.Commands).elements))
                /\ exit' = "running"
                /\ diags' = <<>>

\* What a command leaves on disk: the state file as the process left it, and,
\* when it ran to completion, its own output (recorded under its arguments).
AfterProcess(d, args, status, eff) ==
    [dir |-> d.dir,
     stateFile |-> IF eff.kind = "keep" THEN d.stateFile ELSE eff,
     effects |-> IF status = "ok" THEN d.effects \cup {args} ELSE d.effects]

\* Lines 182-194: one iteration of the command loop.
RunCommand ==
    /\ pc = "RunningCommand"
    /\ LET elements == ElementsAs(data.Commands).elements
           element == elements[index + 1]
           commandArgs == safeSplit(element)
           dir == ValueString(data.SourcePath)
       IN  \E status \in StartOutcomes(executable), eff \in FileEffects :
               /\ procs' = Append(procs, Proc(executable, commandArgs, dir, index,
                                              element, status))
               /\ disk' = AfterProcess(disk, commandArgs, status, eff)
               /\ IF CommandErr(status)
                  THEN /\ Return("CommandFailed",
                                 Append(diags, Diag("Could not execute Command", executable,
                                                    commandArgs, <<>>, status)))
                       /\ UNCHANGED index
                  ELSE /\ index' = index + 1
                       /\ pc' = LoopHead(index + 1, Len(elements))
                       /\ UNCHANGED <<exit, diags>>
    /\ UNCHANGED splitVars
    /\ UNCHANGED hostVars
    /\ UNCHANGED <<phase, resourceData, executable, stored, data, op, prior, reads>>

\* Variant of nextJSStateFile: the source directory is checked a second time
nextJSStateFileIsSourceDir == Join(<<ValueString(data.SourcePath)>>)

nextJSStateFile == Join(<<ValueString(data.SourcePath), ".serverless", "serverless-state.json">>)

\* Lines 196-201: is the state file there?
LocateStateFile ==
    /\ pc = "LocatingStateFile"
    /\ IF ~PathOk(exists(nextJSStateFile))
       THEN Return("StateFileInvalid", Append(diags, PathInvalidDiag))
       ELSE /\ pc' = "ParsingState"
            /\ UNCHANGED <<exit, diags>>
    /\ UNCHANGED splitVars
    /\ UNCHANGED hostVars
    /\ UNCHANGED <<phase, resourceData, executable, stored, disk, data, index,
                   procs, op, prior, reads>>

\* Lines 203-209: read the file (a read error is dropped) and parse it.
ParseState ==
    /\ pc = "ParsingState"
    /\ reads' = Append(reads, nextJSStateFile)
    /\ LET plan == ReadFile(nextJSStateFile).bytes
           parsed == Unmarshal(plan)
       IN  IF parsed.err # ""
           THEN Return("StateParse",
                       Append(diags, Diag("Unable to parse NextJS State", "", <<>>,
                                          nextJSStateFile, parsed.err)))
           ELSE /\ pc' = "ExtractingArtifacts"
                /\ UNCHANGED <<exit, diags>>
    /\ UNCHANGED splitVars
    /\ UNCHANGED hostVars
    /\ UNCHANGED <<phase, resourceData, executable, stored, disk, data, index,
                   procs, op, prior>>

\* Lines 213-240: the list stored as data; built from constants, whatever
\* the state file holds (nextJSState is only logged).
listValue(nextJSState) == ListValue(<< Artifact("value1", "value2", "value3") >>)

\* Lines 211-249: build the data list and save the model.
ExtractArtifacts ==
    /\ pc = "ExtractingArtifacts"
    /\ LET nextJSState == Unmarshal(ReadFile(nextJSStateFile).bytes).value
       IN  /\ data' = [data EXCEPT !.Data = listValue(nextJSState)]
           /\ stored' = StateSet(data')
    /\ Return("Saved", diags)
    /\ UNCHANGED splitVars
    /\ UNCHANGED hostVars
    /\ UNCHANGED <<phase, resourceData, executable, disk, index, procs, op, prior, reads>>

----------------------------------------------------------------------------
(* Read, Update, Delete *)

\* Variant of ReadResult: the computed data is not carried over
ReadResultWithoutData(state) ==
    StateSet([BuildCommandModel(state) EXCEPT !.Data = UnknownList])

\* Lines 252-272: the prior state is read into the model and saved again.
ReadResult(state) == StateSet(BuildCommandModel(state))

Read ==
    \E getErr \in BOOLEAN :
        /\ phase = "ready"
        /\ stored # NoState
        /\ Invoke("Read")
        /\ procs' = <<>>
        /\ reads' = <<>>
        /\ UNCHANGED splitVars
        /\ UNCHANGED hostVars
        /\ UNCHANGED <<phase, resourceData, executable, disk>>
        /\ IF getErr
           THEN /\ data' = NoData
                /\ Return("StateGet", <<GetDiag>>)
                /\ UNCHANGED stored
           ELSE /\ data' = BuildCommandModel(stored[1])
                /\ stored' = ReadResult(stored[1])
                /\ Return("Saved", <<>>)

\* Lines 274-294: the plan is read into the model and saved.
UpdateResult(m) == StateSet(m)

\* Variant of UpdateState: no return after a failed Plan.Get
UpdateStateWithoutReturn(get, state) == StateSet(get.model)

\* The store after Update: untouched when reading the plan failed
UpdateState(get, state) == IF get.err THEN state ELSE UpdateResult(get.model)

Update ==
    \E get \in PlanGets :
        /\ phase = "ready"
        /\ stored # NoState
        /\ Invoke("Update")
        /\ procs' = <<>>
        /\ reads' = <<>>
        /\ data' = get.model
        /\ stored' = UpdateState(get, stored)
        /\ UNCHANGED splitVars
        /\ UNCHANGED hostVars
        /\ UNCHANGED <<phase, resourceData, executable, disk>>
        /\ IF get.err
           THEN Return("PlanGet", <<GetDiag>>)
           ELSE Return("Saved", <<>>)

\* Lines 296-313: the prior state is read; nothing else is done.  The host
\* removes the resource from its state store when Delete reports no error.
DeleteResult(state) == NoState

\* Variant of DiskAfterDelete: Delete removes the build output
DiskAfterDeleteWithCleanup(d) == [d EXCEPT !.stateFile = [kind |-> "absent", doc |-> <<>>]]

\* Lines 306-312: Delete makes no cleanup call, the disk stays as it is.
DiskAfterDelete(d) == d

Delete ==
    \E getErr \in BOOLEAN :
        /\ phase = "ready"
        /\ stored # NoState
        /\ Invoke("Delete")
        /\ procs' = <<>>
        /\ reads' = <<>>
        /\ UNCHANGED splitVars
        /\ UNCHANGED hostVars
        /\ UNCHANGED <<phase, resourceData, executable>>
        /\ IF getErr
           THEN /\ data' = NoData
                /\ Return("StateGet", <<GetDiag>>)
                /\ UNCHANGED <<stored, disk>>
           ELSE /\ data' = BuildCommandModel(stored[1])
                /\ disk' = DiskAfterDelete(disk)
                /\ stored' = DeleteResult(stored[1])
                /\ Return("Returned", <<>>)

----------------------------------------------------------------------------

Next ==
    \/ ProviderConfigure
    \/ Configure
    \/ CreateBegin
    \/ RunCommand
    \/ LocateStateFile
    \/ ParseState
    \/ ExtractArtifacts
    \/ Read
    \/ Update
    \/ Delete

Spec == Init /\ [][Next]_vars

----------------------------------------------------------------------------
(* The tokenizer on its own: safeSplit applied to every short command string, *)
(* and once more to its tokens joined by single spaces.                       *)

Alphabet == {"a", SP, SQ, DQ}

CommandInputs == UNION { [1..n -> Alphabet] : n \in 0..MaxLen }

\* strings.Join(elems, sep)
RECURSIVE JoinWith(_, _)
JoinWith(elems, sep) ==
    IF Len(elems) = 0 THEN <<>>
    ELSE IF Len(elems) = 1 THEN elems[1]
    ELSE elems[1] \o <<sep>> \o JoinWith(Tail(elems), sep)

resourceVars == <<phase, resourceData, executable, stored, disk, pc, data, index,
                  diags, procs, op, exit, prior, reads, providerModel, detected>>

SplitInit ==
    /\ ResourceInit
    /\ disk.dir = "notexist"
    /\ input \in CommandInputs
    /\ tokens = <<>>
    /\ retokens = <<>>
    /\ splitPc = "input"

Tokenize ==
    /\ splitPc = "input"
    /\ tokens' = safeSplit(input)
    /\ splitPc' = "split"
    /\ UNCHANGED <<input, retokens>>
    /\ UNCHANGED resourceVars

Retokenize ==
    /\ splitPc = "split"
    /\ retokens' = safeSplit(JoinWith(tokens, SP))
    /\ splitPc' = "rejoined"
    /\ UNCHANGED <<input, tokens>>
    /\ UNCHANGED resourceVars

SplitNext ==
    \/ Tokenize
    \/ Retokenize

SplitSpec == SplitInit /\ [][SplitNext]_vars

----------------------------------------------------------------------------
(* Properties *)

Elements == data.Commands.elems

\* Create is through its command loop: the source path was accepted, the
\* command list decoded, and every command was started and exited 0.
AllCommandsSucceeded ==
    /\ op = "Create"
    /\ data.SourcePath.state = "known"
    /\ PathOk(exists(<<ValueString(data.SourcePath)>>))
    /\ data.Commands.state = "known"
    /\ Len(procs) = Len(Elements)
    /\ \A j \in 1..Len(procs) : procs[j].status = "ok"

\* C1: Create starts the commands in list order, each at most once; every
\* command before a failed one exited 0 and its effects are on disk; a failed
\* command ends the invocation, so no later command is started.
C1_CommandsInOrderUntilFailure ==
    op = "Create" =>
        LET n == Len(procs)
        IN  /\ n <= Len(Elements)
            /\ \A j \in 1..n :
                   /\ procs[j].index = j - 1
                   /\ procs[j].command = Elements[j]
                   /\ procs[j].args = safeSplit(Elements[j])
            /\ \A j \in 1..(n - 1) :
                   /\ procs[j].status = "ok"
                   /\ procs[j].args \in disk.effects
            /\ (n > 0 /\ procs[n].status # "ok") => (pc = "idle" /\ exit = "CommandFailed")
            /\ exit = "CommandFailed" => (n > 0 /\ procs[n].status # "ok" /\ pc = "idle")

C1_Witness ==
    /\ op = "Create"
    /\ exit = "CommandFailed"
    /\ Len(Elements) = 2
    /\ Len(procs) = 1
    /\ procs[1].status = "nonzero"

\* C2: a known, non-empty source path that does not exist (or whose stat
\* fails) makes Create return the path-not-valid error with no process
\* started and nothing stored.
C2_MissingSourcePathFails ==
    ( /\ op = "Create"
      /\ data.SourcePath.state = "known"
      /\ data.SourcePath.value # ""
      /\ Stat(<<data.SourcePath.value>>) # "ok" )
    => ( /\ pc = "idle"
         /\ exit = "SourcePathInvalid"
         /\ diags = <<PathInvalidDiag>>
         /\ procs = <<>>
         /\ stored = NoState )

C2_Witness ==
    /\ op = "Create"
    /\ exit = "SourcePathInvalid"
    /\ data.SourcePath = StringValue("app")
    /\ disk.dir = "notexist"
    /\ Len(Elements) > 0

\* C3: a successful Update has run every planned command in order, has read
\* the state file, and has stored the data list of that run.
C3_UpdateRerunsPipeline ==
    (op = "Update" /\ exit = "Saved") =>
        /\ Len(procs) = Len(Elements)
        /\ \A j \in 1..Len(procs) : procs[j].command = Elements[j]
        /\ reads = <<nextJSStateFile>>
        /\ stored[1].data.state = "known"

\* C4: Read leaves the stored object as it found it, starts no process and
\* reads no file.
C4_ReadKeepsState ==
    op = "Read" => (stored = prior /\ procs = <<>> /\ reads = <<>>)

C4_Witness ==
    /\ op = "Read"
    /\ exit = "Saved"
    /\ prior # NoState
    /\ prior[1].data = listValue(<<>>)

\* C5: a Create or Update that did not reach its save leaves the state store
\* as it was when the handler was invoked.
C5_FailureStoresNothing ==
    (op \in {"Create", "Update"} /\ exit # "Saved") => stored = prior

C5_Witness ==
    /\ op = "Update"
    /\ exit = "PlanGet"
    /\ HasError(diags)
    /\ prior # NoState
    /\ prior[1].data.state = "known"

\* C6: every Create that returned without storing a result reported an
\* error diagnostic.
C6_EveryFailureReported ==
    (op = "Create" /\ pc = "idle" /\ exit # "Saved") => HasError(diags)

\* C7: when every command succeeded and the state file does not exist or is
\* not accessible, Create returns the path-not-valid error at the state-file
\* check, without reading the file and without storing anything.
C7_MissingStateFileFails ==
    /\ (AllCommandsSucceeded /\ pc # "LocatingStateFile" /\ Stat(StateFilePath) # "ok")
       => ( /\ pc = "idle"
            /\ exit = "StateFileInvalid"
            /\ diags = <<PathInvalidDiag>>
            /\ reads = <<>>
            /\ stored = NoState )
    /\ (op = "Create" /\ exit = "StateFileInvalid")
       => (AllCommandsSucceeded /\ Stat(StateFilePath) # "ok")

C7_Witness ==
    /\ op = "Create"
    /\ exit = "StateFileInvalid"
    /\ Len(procs) = 2
    /\ disk.stateFile.kind = "absent"

\* C8: when every command succeeded and the state file is there but holds
\* no JSON, Create returns the parse error, which names the file and the
\* parser's error, and stores nothing.
C8_InvalidStateFileIsParseError ==
    ( /\ AllCommandsSucceeded
      /\ pc \notin {"LocatingStateFile", "ParsingState"}
      /\ Stat(StateFilePath) = "ok"
      /\ disk.stateFile.kind = "garbage" )
    => ( /\ pc = "idle"
         /\ exit = "StateParse"
         /\ diags = <<Diag("Unable to parse NextJS State", "", <<>>, StateFilePath,
                           "invalid character")>>
         /\ stored = NoState )

C8_Witness ==
    /\ op = "Create"
    /\ exit = "StateParse"
    /\ Len(procs) = 2
    /\ disk.stateFile.kind = "garbage"

\* C9: the data list a successful Create stores holds exactly the artifacts
\* of the state file, in the file's order.
C9_ArtifactsFromStateFile ==
    (op = "Create" /\ exit = "Saved") => stored[1].data = ListValue(disk.stateFile.doc)

\* C10: a Delete step leaves the disk as it is, starts no process and reads
\* no file; it reports an error exactly when reading the prior state failed,
\* and otherwise the stored object is gone.
C10_DeleteOnlyDropsState ==
    [][ op' = "Delete" =>
          /\ disk' = disk
          /\ procs' = <<>>
          /\ reads' = <<>>
          /\ HasError(diags') <=> exit' = "StateGet"
          /\ IF HasError(diags') THEN stored' = stored ELSE stored' = NoState ]_vars

C10_Witness ==
    /\ op = "Delete"
    /\ exit = "Returned"
    /\ stored = NoState
    /\ disk.stateFile.kind = "json"
    /\ disk.effects # {}

SourcePathNeededDiag == Diag("Source Path needed", "", <<>>, <<>>, "")

\* C15 as stated: an empty or unknown source path gives the source-path-needed
\* error; the path-not-valid error is given only for a known, non-empty path
\* that is not there; no command is started in either case.
C15_EmptyOrUnknownIsInvalidInput ==
    (op = "Create" /\ exit # "PlanGet") =>
        /\ (data.SourcePath.state # "known" \/ data.SourcePath.value = "")
           => (exit = "SourcePathNeeded" /\ procs = <<>>)
        /\ exit = "SourcePathInvalid"
           => ( /\ data.SourcePath.state = "known"
                /\ data.SourcePath.value # ""
                /\ Stat(<<data.SourcePath.value>>) # "ok"
                /\ procs = <<>> )

\* C15, amended: a null or unknown source path gives the source-path-needed
\* error; a known path that is not there, the empty string included, gives
\* the path-not-valid error; no command is started in either case.
C15_NullOrUnknownIsInvalidInput ==
    (op = "Create" /\ exit # "PlanGet") =>
        /\ data.SourcePath.state # "known" <=> exit = "SourcePathNeeded"
        /\ exit = "SourcePathNeeded"
           => (diags = <<SourcePathNeededDiag>> /\ procs = <<>> /\ stored = NoState)
        /\ exit = "SourcePathInvalid"
           <=> (data.SourcePath.state = "known" /\ Stat(<<data.SourcePath.value>>) # "ok")
        /\ exit = "SourcePathInvalid"
           => (diags = <<PathInvalidDiag>> /\ procs = <<>> /\ stored = NoState)

C15_Witness ==
    /\ op = "Create"
    /\ exit = "SourcePathInvalid"
    /\ data.SourcePath = StringValue("")
    /\ disk.dir = "ok"
    /\ Len(Elements) > 0

Rank(p) ==
    CASE p = "RunningCommand" -> 1
      [] p = "LocatingStateFile" -> 2
      [] p = "ParsingState" -> 3
      [] p = "ExtractingArtifacts" -> 4
      [] OTHER -> 0

\* What holds at each stage of a Create
StageInvariant ==
    op = "Create" =>
        /\ pc = "RunningCommand"
           => ( /\ index = Len(procs)
                /\ index < Len(Elements)
                /\ \A j \in 1..Len(procs) : procs[j].status = "ok" )
        /\ pc \in {"LocatingStateFile", "ParsingState", "ExtractingArtifacts"}
           => AllCommandsSucceeded
        /\ pc \in {"ParsingState", "ExtractingArtifacts"} => Stat(StateFilePath) = "ok"
        /\ pc = "LocatingStateFile" => reads = <<>>
        /\ pc = "ExtractingArtifacts"
           => (disk.stateFile.kind = "json" /\ reads = <<StateFilePath>>)
        /\ exit = "Saved"
           => (AllCommandsSucceeded /\ disk.stateFile.kind = "json" /\ reads = <<StateFilePath>>)
        /\ pc # "idle" => (exit = "running" /\ ~HasError(diags) /\ stored = NoState)
        /\ \A j \in 1..Len(procs) : \A k \in 1..Len(procs) :
               procs[j].index = procs[k].index => j = k

\* How a Create moves from stage to stage
StageStep ==
    /\ (pc # "idle" /\ pc' # "idle")
       => \/ Rank(pc') = Rank(pc) + 1
          \/ (pc = "RunningCommand" /\ pc' = "RunningCommand" /\ index' = index + 1)
    /\ (pc = "idle" /\ pc' # "idle")
       => ( /\ op' = "Create"
            /\ procs' = <<>>
            /\ diags' = <<>>
            /\ pc' \in {"RunningCommand", "LocatingStateFile"} )
    /\ (pc # "idle" /\ pc' = "idle")
       => ( /\ exit' = "Saved" <=> pc = "ExtractingArtifacts"
            /\ exit' # "Saved" => HasError(diags') )
    /\ pc = "RunningCommand" => Len(procs') = Len(procs) + 1
    /\ (pc # "idle" /\ pc # "RunningCommand") => procs' = procs

\* C16: a Create goes through path validation, the commands in order, the
\* state-file check, the parse and the extraction, one after the other; a
\* stage is entered only when all before it succeeded; a failure ends the
\* invocation; no command is started twice.
C16_StagesInOrder == []StageInvariant /\ [][StageStep]_vars

C16_Witness ==
    /\ op = "Create"
    /\ exit = "Saved"
    /\ Len(procs) = 2
    /\ procs[1].command # procs[2].command

\* C17: what the provider hands over is a non-empty name whose version
\* detection succeeded ("npm" when none is configured); a failed detection
\* hands over nothing and reports an error; every command Create starts
\* uses the name handed over.
C17_ExecutableValidated ==
    /\ resourceData # <<>>
       => ( /\ resourceData[1] # ""
            /\ resourceData[1] \in detected
            /\ resourceData[1] = IF IsNull(providerModel) THEN "npm"
                                 ELSE providerModel.value )
    /\ (op = "ProviderConfigure" /\ exit = "DetectFailed")
       => (resourceData = <<>> /\ HasError(diags) /\ procs[1].status # "ok")
    /\ (op = "ProviderConfigure" /\ exit = "Configured")
       => procs = <<Proc(resourceData[1], VersionArgs, "", 0, <<>>, "ok")>>
    /\ executable # "" => resourceData = <<executable>>
    /\ op = "Create"
       => \A j \in 1..Len(procs) :
              /\ procs[j].exe # ""
              /\ procs[j].exe \in detected
              /\ procs[j].exe = resourceData[1]

C17_Witness ==
    /\ op = "Create"
    /\ Len(procs) = 2
    /\ procs[1].exe = "npm"
    /\ IsNull(providerModel)

\* C18: with an empty command list Create starts no process and never is at
\* a command; it stores a result exactly when the source path exists and the
\* state file exists and parses.
C18_EmptyCommandList ==
    (op = "Create" /\ data.Commands = ListValue(<<>>)) =>
        /\ procs = <<>>
        /\ pc # "RunningCommand"
        /\ pc = "idle"
           => ( /\ exit = "Saved"
                   <=> ( /\ data.SourcePath.state = "known"
                         /\ Stat(<<data.SourcePath.value>>) = "ok"
                         /\ Stat(StateFilePath) = "ok"
                         /\ disk.stateFile.kind = "json" )
                /\ exit = "Saved" <=> stored # NoState )

\* a result stored although no command has ever run
C18_Witness ==
    /\ op = "Create"
    /\ exit = "Saved"
    /\ data.Commands = ListValue(<<>>)
    /\ disk.effects = {}
    /\ stored # NoState

----------------------------------------------------------------------------
(* Properties of the tokenizer (checked under SplitSpec) *)

Words == Split(input)

Unquoted(w) == ~(HasPrefix(w, SQ) \/ HasPrefix(w, DQ))

\* The word opens and closes a quote by itself, as 'a' does
SelfQuoted(w) == Len(w) >= 2 /\ ~Unquoted(w) /\ HasSuffix(w, w[1])

\* The words are separated by single spaces: none of them is empty
SingleSpaced == \A k \in 1..Len(Words) : Words[k] # <<>>

\* Words i..j are the one quoted substring of the input: word i opens it, word
\* j is the first word from i on that closes it, all other words are unquoted.
QuotedSpan(i, j) ==
    /\ \A k \in 1..(i - 1) : Unquoted(Words[k])
    /\ ~Unquoted(Words[i])
    /\ IF j = i
       THEN SelfQuoted(Words[i])
       ELSE /\ ~SelfQuoted(Words[i])
            /\ HasSuffix(Words[j], Words[i][1])
            /\ \A k \in (i + 1)..(j - 1) : ~HasSuffix(Words[k], Words[i][1])
    /\ \A k \in (j + 1)..Len(Words) : Unquoted(Words[k])

\* What lies between the two quote characters of the span
QuotedContent(i, j) ==
    LET t == JoinWith(SubSeq(Words, i, j), SP)
    IN  SubSeq(t, 2, Len(t) - 1)

TokensWithSpan(i, j) ==
    SubSeq(Words, 1, i - 1) \o <<QuotedContent(i, j)>> \o SubSeq(Words, j + 1, Len(Words))

\* C11: a quoted substring, closed in the word that opens it or in a later
\* one, comes out as one token without its quotes, between the unquoted words
\* before and after it.
C11_QuotedSubstringIsOneToken ==
    (splitPc # "input" /\ SingleSpaced) =>
        \A i \in 1..Len(Words) : \A j \in i..Len(Words) :
            QuotedSpan(i, j) => tokens = TokensWithSpan(i, j)

\* The part of C11 that safeSplit meets: the quote is closed in a later word.
QuoteClosedLaterIsOneToken ==
    (splitPc # "input" /\ SingleSpaced) =>
        \A i \in 1..Len(Words) : \A j \in (i + 1)..Len(Words) :
            QuotedSpan(i, j) => tokens = TokensWithSpan(i, j)

QuoteClosedLaterWitness ==
    /\ splitPc = "split"
    /\ SingleSpaced
    /\ Len(Words) = 3
    /\ QuotedSpan(2, 3)
    /\ Len(tokens) = 2

CountSpaces(s) == Cardinality({ k \in 1..Len(s) : s[k] = SP })

\* No word of s begins with a quote character (read off the string itself)
NoWordQuoted(s) ==
    \A k \in 1..Len(s) :
        (k = 1 \/ s[k - 1] = SP) => s[k] \notin {SQ, DQ}

\* C12: when no word begins with a quote character, the tokens are the words
\* between the single spaces: as many as spaces plus one, none holding a
\* space, and joined by single spaces they give the input back.
C12_UnquotedWordsAreTokens ==
    (splitPc # "input" /\ NoWordQuoted(input)) =>
        /\ Len(tokens) = CountSpaces(input) + 1
        /\ \A k \in 1..Len(tokens) : CountSpaces(tokens[k]) = 0
        /\ JoinWith(tokens, SP) = input

\* two consecutive spaces inside the input, one empty token
C12_Witness ==
    /\ splitPc = "split"
    /\ NoWordQuoted(input)
    /\ Len(input) = 4
    /\ input[2] = SP /\ input[3] = SP
    /\ tokens = << <<"a">>, <<>>, <<"a">> >>

\* Word i opens a quote that no later word closes; no earlier word is quoted.
UnterminatedAt(i) ==
    /\ \A k \in 1..(i - 1) : Unquoted(Words[k])
    /\ ~Unquoted(Words[i])
    /\ \A k \in (i + 1)..Len(Words) : ~HasSuffix(Words[k], Words[i][1])

\* C13: when the input ends inside a quote, nothing is emitted for the
\* buffer; the tokens are the words before the one that opened the quote.
C13_UnterminatedQuoteDropped ==
    splitPc # "input" =>
        \A i \in 1..Len(Words) :
            UnterminatedAt(i) => tokens = SubSeq(Words, 1, i - 1)

C13_Witness ==
    /\ splitPc = "split"
    /\ Len(Words) = 3
    /\ UnterminatedAt(2)
    /\ Words[3] # <<>>
    /\ tokens = << <<"a">> >>

\* Every quoted substring of the input lies within one word: no space is quoted
NoQuotedSpaces == \A k \in 1..Len(Words) : Unquoted(Words[k]) \/ SelfQuoted(Words[k])

\* C14: for a command with no quoted spaces, tokenizing the tokens joined by
\* single spaces gives the same tokens again.
C14_RejoinRoundTrip ==
    (splitPc = "rejoined" /\ NoQuotedSpaces) => retokens = tokens

\* The round trip where nothing is quoted at all
UnquotedRoundTrip ==
    (splitPc = "rejoined" /\ NoWordQuoted(input)) => retokens = tokens

====
